---- MODULE Spec2Model ----
(***************************************************************************)
(* Model of bdvmi::XenPageCache (src/src/bdvmixencache.cpp): the cache of  *)
(* guest-frame mappings, keyed by gfn, with a reverse index keyed by the   *)
(* mapped pointer, reference counts, a recency stamp drawn from a static   *)
(* counter, and the batched cleanup that runs before an insertion when the *)
(* cache is at its limit.                                                  *)
(*                                                                         *)
(* Pointers are the naturals 1..; NULL is nullptr.  CacheInfo is a record  *)
(* [accessed, in_use, pointer].  in_use is a signed counter (cleanup tests *)
(* in_use < 1); accessed and index are unsigned long and never come near   *)
(* their width within the bounds below.                                    *)
(***************************************************************************)
EXTENDS Integers, Sequences, FiniteSets, TLC

(***************************************************************************)
(* Bounds of the exploration.                                              *)
(***************************************************************************)
MaxGfn == 53          \* guest frames 1..MaxGfn are requested
NumHot == 1           \* frames 1..NumHot are requested before the fill
MaxCredit == 1        \* requests and releases off the caller's plan

(***************************************************************************)
(* Program constants.                                                      *)
(***************************************************************************)
MinLimit == 50                    \* setLimit: "magic number!"
MAX_CACHE_SIZE_DEFAULT == 1024    \* bdvmi/xencache.h
ProbeBelowMajor == 4              \* checkPages: linuxMajVersion_ < 4
NoVersion == -1                   \* linuxMajVersion_( -1 )
NULL == 0                         \* nullptr

Gfns == 1 .. MaxGfn
Hot == 1 .. NumHot
StrayPtr == MaxGfn + 2            \* an address the provider never hands out
Pointers == 1 .. StrayPtr
LimitInputs == {MinLimit - 1, MinLimit, MinLimit + 1}
OsRelease == {NoVersion, ProbeBelowMajor}

VARIABLES
    xci_,              \* TRUE iff the xc_interface handle is non-null
    linuxMajVersion_,
    cacheLimit_,
    cache_,            \* gfn -> CacheInfo
    reverseCache_,     \* pointer -> gfn
    index,             \* the static counter of generateIndex()
    xcMapPage,         \* StatsCollector counter "xcMapPage"
    live,              \* the provider's live mappings: pointer -> gfn
    strayUnmap,        \* munmap() was called on an address that is not mapped
    alive,             \* FALSE once the destructor has run
    holders,           \* history: pointer -> outstanding holders
    calls,             \* history: gfn in cache_ -> [acq, rel] since creation
    misused,           \* history: some release had no matching acquire
    lastOp,            \* history: the last call and what it did
    mapCount,              \* history: mappings the provider has produced
    unmapCount,        \* history: munmap() calls made
    asked,             \* history: what the host answered in the last call
    inserted,          \* history: entries ever put into cache_
    pinnedMiss,        \* history: an insertion found an entry still held
    cutBelow,          \* history: the limit was set below the size
    nextGfn,           \* caller: the next frame that was never requested
    pinAll,            \* caller: keeps every mapping of the fill
    credit,            \* caller: off-plan calls it may still make
    drain              \* caller: releases everything, then asks for new frames

progVars == <<xci_, linuxMajVersion_, cacheLimit_, cache_, reverseCache_,
              index, xcMapPage, live, strayUnmap, alive>>
histVars == <<holders, calls, misused, lastOp, mapCount, unmapCount,
              asked, inserted, pinnedMiss, cutBelow>>
vars == <<xci_, linuxMajVersion_, cacheLimit_, cache_, reverseCache_,
          index, xcMapPage, live, strayUnmap, alive,
          holders, calls, misused, lastOp, mapCount, unmapCount, asked,
          inserted, pinnedMiss, cutBelow,
          nextGfn, pinAll, credit, drain>>

Empty == [x \in {} |-> 0]

Without(f, S) == [x \in DOMAIN f \ S |-> f[x]]

Size(f) == Cardinality(DOMAIN f)

\* the answers of the host to one call: does the hypervisor map the frame,
\* does mincore() find it resident
NotAsked == [host |-> FALSE, mapOK |-> FALSE, probeOK |-> FALSE]

Asked(mapOK, probeOK) == [host |-> TRUE, mapOK |-> mapOK, probeOK |-> probeOK]

Op(op, arg, ret, pointer, cleaned, evicted, nUnmap, mapCalled, rejected) ==
    [op |-> op, arg |-> arg, ret |-> ret, pointer |-> pointer,
     cleaned |-> cleaned, evicted |-> evicted, nUnmap |-> nUnmap,
     mapCalled |-> mapCalled, rejected |-> rejected]

Plain(op, arg, ret, pointer) ==
    Op(op, arg, ret, pointer, FALSE, {}, 0, FALSE, NULL)

(***************************************************************************)
(* The mapping provider and the host.                                      *)
(***************************************************************************)
\* xc_map_foreign_range: a fresh address that is not mapped now, or nullptr
xc_map_foreign_range(lv, mapOK) ==
    IF mapOK
    THEN CHOOSE p \in Pointers \ {StrayPtr} :
            /\ p \notin DOMAIN lv
            /\ \A q \in Pointers \ {StrayPtr} : q \notin DOMAIN lv => p <= q
    ELSE NULL

\* munmap( pointer, XC_PAGE_SIZE )
munmap(lv, p) == Without(lv, {p})

\* checkPages: the mincore() probe runs only below kernel major 4
checkPages(version, probeOK) ==
    ~(version < ProbeBelowMajor /\ ~probeOK)

(***************************************************************************)
(* cleanup()                                                               *)
(***************************************************************************)
\* mutants: the test lets a frame with one holder, none with zero, or every
\* frame pass
unusedBelowTwo(ci) == ci.in_use < 2

unusedBelowZero(ci) == ci.in_use < 0

unusedAlways(ci) == TRUE

\* if ( ci->second.in_use < 1 )
unused(ci) == ci.in_use < 1

\* mutant: the multimap is walked from its newest end
BeforeNewest(c, g, h) ==
    \/ c[g].accessed > c[h].accessed
    \/ c[g].accessed = c[h].accessed /\ g >= h

\* order of std::multimap<accessed, gfn>, filled in ascending gfn order
Before(c, g, h) ==
    \/ c[g].accessed < c[h].accessed
    \/ c[g].accessed = c[h].accessed /\ g <= h

\* the one element of a singleton; the loop below binds what an iteration
\* hands to the next as a value, { e(v) : v \in {value} }, so that it is
\* computed once
Only(S) == CHOOSE x \in S : TRUE

\* the frames of S in the order of the multimap
Ordered(c, S) ==
    SortSeq(SelectSeq([g \in Gfns |-> g], LAMBDA g : g \in S),
            LAMBDA g, h : Before(c, g, h))

timeOrderedGFNs(c) == Ordered(c, {g \in DOMAIN c : unused(c[g])})

\* mutants: the quota test is off by one, or the quota is nil
quotaReachedLate(count, limit) == count > limit \div 2

quotaReachedAtOnce(count, limit) == TRUE

\* if ( count++ >= cacheLimit_ / 2 ) break;
quotaReached(count, limit) == count >= limit \div 2

\* mutant: cleanup forgets the reverse index
eraseReverseNot(rc, p) == rc

\* reverseCache_.erase( ci->second.pointer )
eraseReverse(rc, p) == Without(rc, {p})

\* one iteration of the second loop of cleanup()
RECURSIVE cleanupLoop(_, _, _, _, _)
cleanupLoop(st, order, ti, count, limit) ==
    IF ti > Len(order) THEN st
    ELSE IF quotaReached(count, limit) THEN st
    ELSE LET g == order[ti] IN
         IF g \notin DOMAIN st.cache
         THEN cleanupLoop(st, order, ti + 1, count + 1, limit)
         ELSE LET p == st.cache[g].pointer IN
              Only({cleanupLoop(nx, order, ti + 1, count + 1, limit) :
                      nx \in {[cache    |-> Without(st.cache, {g}),
                               reverse  |-> eraseReverse(st.reverse, p),
                               live     |-> munmap(st.live, p),
                               stray    |-> st.stray
                                              \/ p \notin DOMAIN st.live,
                               unmapped |-> st.unmapped + 1]}})

cleanup(c, rc, lv, limit) ==
    cleanupLoop([cache |-> c, reverse |-> rc, live |-> lv,
                 stray |-> FALSE, unmapped |-> 0],
                timeOrderedGFNs(c), 1, 0, limit)

\* mutants: cleanup runs before every insertion, one entry too early, or
\* never
needsCleanupAlways(size, limit) == TRUE

needsCleanupEarly(size, limit) == size + 1 >= limit

needsCleanupNever(size, limit) == FALSE

\* if ( cache_.size() >= cacheLimit_ )
needsCleanup(size, limit) == size >= limit

(***************************************************************************)
(* Construction and init()                                                 *)
(***************************************************************************)
Init ==
    /\ xci_ = FALSE
    /\ linuxMajVersion_ = NoVersion
    /\ cacheLimit_ = MAX_CACHE_SIZE_DEFAULT
    /\ cache_ = Empty
    /\ reverseCache_ = Empty
    /\ index = 0
    /\ xcMapPage = 0
    /\ live = Empty
    /\ strayUnmap = FALSE
    /\ alive = TRUE
    /\ holders = [p \in Pointers |-> 0]
    /\ calls = Empty
    /\ misused = FALSE
    /\ lastOp = Plain("construct", 0, "void", NULL)
    /\ mapCount = 0
    /\ unmapCount = 0
    /\ asked = NotAsked
    /\ inserted = 0
    /\ pinnedMiss = FALSE
    /\ cutBelow = FALSE
    /\ nextGfn = NumHot + 1
    /\ pinAll \in BOOLEAN
    /\ credit = MaxCredit
    /\ drain = FALSE

\* init( xci, domain ): handle is the xc_interface pointer being non-null,
\* osrelease what /proc/sys/kernel/osrelease yields (NoVersion: unreadable)
init(handle, osrelease) ==
    /\ alive
    /\ xci_' = handle
    /\ linuxMajVersion_' =
          IF osrelease = NoVersion THEN linuxMajVersion_ ELSE osrelease
    /\ lastOp' = Plain("init", osrelease, "void", NULL)
    /\ UNCHANGED <<cacheLimit_, cache_, reverseCache_, index, xcMapPage,
                   live, strayUnmap, alive, holders, calls, misused,
                   mapCount, unmapCount>>
    /\ asked' = NotAsked /\ UNCHANGED <<inserted, pinnedMiss, cutBelow>>

(***************************************************************************)
(* setLimit( limit )                                                       *)
(***************************************************************************)
\* mutant: the minimum itself is rejected
belowMinimumInclusive(limit) == limit <= MinLimit

\* if ( limit < 50 )
belowMinimum(limit) == limit < MinLimit

setLimit(limit) ==
    /\ alive
    /\ IF belowMinimum(limit)
       THEN /\ lastOp' = Plain("setLimit", limit, "false", NULL)
            /\ UNCHANGED cacheLimit_
       ELSE /\ cacheLimit_' = limit
            /\ lastOp' = Plain("setLimit", limit, "true", NULL)
    /\ UNCHANGED <<xci_, linuxMajVersion_, cache_, reverseCache_, index,
                   xcMapPage, live, strayUnmap, alive, holders, calls,
                   misused, mapCount, unmapCount, pinnedMiss>>
    /\ asked' = NotAsked /\ UNCHANGED inserted
    /\ cutBelow' = (cutBelow \/ cacheLimit_' < Size(cache_))

(***************************************************************************)
(* update( gfn, pointer ) and insertNew( gfn, pointer )                    *)
(***************************************************************************)
\* mutants: a hit does not count the new holder, or does not stamp the entry
touchNoRef(ci, stamp) == [ci EXCEPT !.accessed = stamp]

touchNoStamp(ci, stamp) == [ci EXCEPT !.in_use = @ + 1]

\* i->second.accessed = generateIndex(); ++i->second.in_use;
touch(ci, stamp) == [ci EXCEPT !.accessed = stamp, !.in_use = @ + 1]

\* mutant: the lookup never finds the frame
neverFound(c, gfn) == FALSE

\* cache_.find( gfn ) != cache_.end()
found(c, gfn) == gfn \in DOMAIN c

\* mutant: the rejected mapping is left mapped
rejectMappingLeak(lv, p, gfn) == (p :> gfn) @@ lv

\* munmap( ci.pointer, XC_PAGE_SIZE ) of a mapping that failed checkPages
rejectMapping(lv, p, gfn) == munmap((p :> gfn) @@ lv, p)

\* CacheInfo ci of insertNew
newInfo(stamp, p) == [accessed |-> stamp, in_use |-> 1, pointer |-> p]

\* mutant: the handle is never found to be null
noHandleNever(xci) == FALSE

\* if ( !xci_ )
noHandle(xci) == ~xci

GenericFailure(gfn) ==
    /\ lastOp' = Plain("update", gfn, "MAP_FAILED_GENERIC", NULL)
    /\ UNCHANGED <<xci_, linuxMajVersion_, cacheLimit_, cache_,
                   reverseCache_, index, xcMapPage, live, strayUnmap, alive,
                   holders, calls, misused, mapCount, unmapCount>>
    /\ asked' = NotAsked /\ UNCHANGED <<inserted, pinnedMiss, cutBelow>>

\* the store as insertNew finds it after "if ( size >= limit ) cleanup();"
afterCleanup(c, rc, lv, limit) ==
    IF needsCleanup(Size(c), limit)
    THEN cleanup(c, rc, lv, limit)
    ELSE [cache |-> c, reverse |-> rc, live |-> lv,
          stray |-> FALSE, unmapped |-> 0]

insertNew(gfn, mapOK, probeOK) ==
    IF noHandle(xci_) THEN GenericFailure(gfn)
    ELSE
    \E cl \in {afterCleanup(cache_, reverseCache_, live, cacheLimit_)} :
    \E p \in {xc_map_foreign_range(cl.live, mapOK)} :
    LET ran  == needsCleanup(Size(cache_), cacheLimit_)
        gone == DOMAIN cache_ \ DOMAIN cl.cache
        ci   == newInfo(index, p)
    IN
    /\ xcMapPage' = xcMapPage + 1
    /\ asked' = Asked(mapOK, probeOK)
    /\ pinnedMiss' = (pinnedMiss \/ \E g \in DOMAIN cache_ :
                                      cache_[g].in_use >= 1)
    /\ UNCHANGED cutBelow
    /\ index' = index + 1
    /\ strayUnmap' = (strayUnmap \/ cl.stray)
    /\ UNCHANGED <<xci_, linuxMajVersion_, cacheLimit_, alive, misused>>
    /\ IF p = NULL
       THEN /\ cache_' = cl.cache
            /\ reverseCache_' = cl.reverse
            /\ live' = cl.live
            /\ calls' = Without(calls, gone)
            /\ UNCHANGED <<holders, mapCount, inserted>>
            /\ unmapCount' = unmapCount + cl.unmapped
            /\ lastOp' = Op("update", gfn, "MAP_FAILED_GENERIC", NULL,
                            ran, gone, cl.unmapped, TRUE, NULL)
       ELSE IF ~checkPages(linuxMajVersion_, probeOK)
       THEN /\ cache_' = cl.cache
            /\ reverseCache_' = cl.reverse
            /\ live' = rejectMapping(cl.live, p, gfn)
            /\ calls' = Without(calls, gone)
            /\ UNCHANGED <<holders, inserted>>
            /\ mapCount' = mapCount + 1
            /\ unmapCount' = unmapCount + cl.unmapped + 1
            /\ lastOp' = Op("update", gfn, "MAP_PAGE_NOT_PRESENT", NULL,
                            ran, gone, cl.unmapped + 1, TRUE, p)
       ELSE /\ cache_' = (gfn :> ci) @@ cl.cache
            /\ reverseCache_' = (p :> gfn) @@ cl.reverse
            /\ live' = (p :> gfn) @@ cl.live
            /\ calls' = (gfn :> [acq |-> 1, rel |-> 0]) @@ Without(calls, gone)
            /\ holders' = [holders EXCEPT ![p] = @ + 1]
            /\ mapCount' = mapCount + 1
            /\ inserted' = inserted + 1
            /\ unmapCount' = unmapCount + cl.unmapped
            /\ lastOp' = Op("update", gfn, "MAP_SUCCESS", p,
                            ran, gone, cl.unmapped, TRUE, NULL)

update(gfn, mapOK, probeOK) ==
    /\ alive
    /\ IF noHandle(xci_) THEN GenericFailure(gfn)
       ELSE IF ~found(cache_, gfn) THEN insertNew(gfn, mapOK, probeOK)
       ELSE /\ cache_' = [cache_ EXCEPT ![gfn] = touch(@, index)]
            /\ index' = index + 1
            /\ calls' = [calls EXCEPT ![gfn].acq = @ + 1]
            /\ holders' = [holders EXCEPT ![cache_[gfn].pointer] = @ + 1]
            /\ lastOp' = Plain("update", gfn, "MAP_SUCCESS",
                               cache_[gfn].pointer)
            /\ UNCHANGED <<xci_, linuxMajVersion_, cacheLimit_,
                           reverseCache_, xcMapPage, live, strayUnmap, alive,
                           misused, mapCount, unmapCount>>
            /\ asked' = NotAsked /\ UNCHANGED <<inserted, pinnedMiss, cutBelow>>

(***************************************************************************)
(* release( pointer )                                                      *)
(***************************************************************************)
\* --ci->second.in_use;
unref(ci) == [ci EXCEPT !.in_use = @ - 1]

\* mutant: the lookup settles for the nearest address below
reverseFindFloor(rc, p) ==
    LET K == {k \in DOMAIN rc : k <= p}
    IN  IF K = {} THEN {}
        ELSE {rc[CHOOSE k \in K : \A j \in K : j <= k]}

\* reverseCache_.find( pointer ): the frame found, or none for end()
reverseFind(rc, p) == IF p \in DOMAIN rc THEN {rc[p]} ELSE {}

release(pointer) ==
    /\ alive
    /\ lastOp' = Plain("release", pointer, "void", NULL)
    /\ misused' = (misused \/ holders[pointer] = 0)
    /\ holders' = IF holders[pointer] > 0
                  THEN [holders EXCEPT ![pointer] = @ - 1]
                  ELSE holders
    /\ LET ri == reverseFind(reverseCache_, pointer)
           ci == ri \cap DOMAIN cache_
       IN  IF ri = {}
           THEN UNCHANGED <<cache_, calls>>
           ELSE IF ci = {}
           THEN UNCHANGED <<cache_, calls>>
           ELSE /\ cache_' = [g \in DOMAIN cache_ |->
                                 IF g \in ci THEN unref(cache_[g])
                                 ELSE cache_[g]]
                /\ calls' = [g \in DOMAIN calls |->
                                 IF g \in ci
                                 THEN [calls[g] EXCEPT !.rel = @ + 1]
                                 ELSE calls[g]]
    /\ UNCHANGED <<xci_, linuxMajVersion_, cacheLimit_, reverseCache_, index,
                   xcMapPage, live, strayUnmap, alive, mapCount, unmapCount>>
    /\ asked' = NotAsked /\ UNCHANGED <<inserted, pinnedMiss, cutBelow>>

(***************************************************************************)
(* ~XenPageCache()                                                         *)
(***************************************************************************)
\* mutant: the destructor leaves the mappings that are still held
doomedUnused(c) == {c[g].pointer : g \in {h \in DOMAIN c : unused(c[h])}}

\* the pointers the loop of the destructor passes to munmap()
doomed(c) == {c[g].pointer : g \in DOMAIN c}

Destructor ==
    /\ alive
    /\ alive' = FALSE
    /\ live' = Without(live, doomed(cache_))
    /\ strayUnmap' = (strayUnmap \/ \E p \in doomed(cache_) :
                                        p \notin DOMAIN live)
    /\ unmapCount' = unmapCount + Cardinality(doomed(cache_))
    /\ cache_' = Empty
    /\ reverseCache_' = Empty
    /\ calls' = Empty
    /\ lastOp' = Op("destroy", 0, "void", NULL, FALSE, {},
                    Cardinality(doomed(cache_)), FALSE, NULL)
    /\ UNCHANGED <<xci_, linuxMajVersion_, cacheLimit_, index, xcMapPage,
                   holders, misused, mapCount>>
    /\ asked' = NotAsked /\ UNCHANGED <<inserted, pinnedMiss, cutBelow>>

(***************************************************************************)
(* The caller.  Before the first other frame is requested (Early) it       *)
(* requests the frames 1..NumHot, in order, and releases each or keeps it, *)
(* so that they are the oldest entries.  It then fills the cache with the  *)
(* frames NumHot+1, NumHot+2, ... in order, releasing each at once         *)
(* (pinAll = FALSE) or keeping them all (pinAll = TRUE, and then it starts  *)
(* the fill at once), after it has set a limit it can reach.  Once the cache*)
(* is at its limit (Late) it may also keep or release the newest frame.    *)
(* Anything else costs one credit: a request that hits, does not map or is *)
(* not resident, a release without a matching request or of a stray        *)
(* address, and a change of the limit of a full cache.  While no handle is *)
(* bound it may request frame 1..NumHot+1 all the same.  Right after a     *)
(* cleanup it may release the lowest address that the cleanup unmapped.    *)
(* Off a full cache it makes an off-plan call only with all its credits.   *)
(***************************************************************************)
Early == nextGfn = NumHot + 1
Late == Size(cache_) >= cacheLimit_
Free == Early \/ Late

Held(g) == g \in DOMAIN cache_ /\ cache_[g].in_use >= 1

Newest == nextGfn - 1

RequestCost(gfn, mapOK, probeOK) ==
    IF gfn \in DOMAIN cache_ \/ ~mapOK \/ ~probeOK THEN 1 ELSE 0

ReleaseCost(pointer) ==
    IF pointer \in DOMAIN reverseCache_ /\ Held(reverseCache_[pointer])
    THEN 0 ELSE 1

\* an off-plan call needs a credit, and the first one if the cache is not full
Affordable(cost) ==
    IF cost = 0 THEN TRUE
    ELSE cost <= credit /\ (Late \/ credit = MaxCredit)

MayRequest(gfn, mapOK, probeOK) ==
    /\ mapOK \/ probeOK
    /\ Affordable(RequestCost(gfn, mapOK, probeOK))
    /\ \/ /\ gfn \in Hot
          /\ Early /\ xci_ /\ ~pinAll
          /\ gfn = 1 \/ (gfn - 1) \in DOMAIN cache_
       \/ /\ gfn = Newest
          /\ Late
          /\ gfn \in DOMAIN cache_
       \/ /\ gfn \in Hot \cup {nextGfn}
          /\ ~xci_ /\ mapOK /\ probeOK
       \/ /\ gfn = nextGfn
          /\ gfn <= MaxGfn
          /\ xci_ /\ cacheLimit_ <= MaxGfn
          /\ \/ Free
             \/ mapOK /\ probeOK /\ (pinAll \/ ~Held(Newest))

MayRelease(pointer) ==
    /\ Affordable(ReleaseCost(pointer))
    /\ \/ /\ Late
          /\ pointer = StrayPtr
       \/ /\ lastOp.cleaned /\ lastOp.evicted # {}
          /\ pointer = xc_map_foreign_range(live, TRUE)
          /\ \E q \in DOMAIN live : q > pointer
       \/ /\ Early
          /\ pointer \in DOMAIN reverseCache_
          /\ reverseCache_[pointer] \in Hot
       \/ /\ Late
          /\ pointer \in DOMAIN reverseCache_
          /\ reverseCache_[pointer] = Newest
       \/ /\ ~Free /\ ~pinAll
          /\ Newest \notin Hot /\ Held(Newest)
          /\ pointer = cache_[Newest].pointer

Request ==
    \E gfn \in Gfns, mapOK \in BOOLEAN, probeOK \in BOOLEAN :
        /\ ~drain
        /\ MayRequest(gfn, mapOK, probeOK)
        /\ update(gfn, mapOK, probeOK)
        /\ nextGfn' = IF gfn = nextGfn /\ gfn \in DOMAIN cache_'
                      THEN nextGfn + 1 ELSE nextGfn
        /\ credit' = credit - RequestCost(gfn, mapOK, probeOK)
        /\ UNCHANGED <<pinAll, drain>>

Release ==
    \E pointer \in Pointers :
        /\ ~drain
        /\ MayRelease(pointer)
        /\ release(pointer)
        /\ credit' = credit - ReleaseCost(pointer)
        /\ UNCHANGED <<nextGfn, pinAll, drain>>

SetLimit ==
    \E limit \in LimitInputs :
        /\ ~drain
        /\ Free
        /\ Late => credit > 0
        /\ setLimit(limit)
        /\ credit' = IF Late THEN credit - 1 ELSE credit
        /\ UNCHANGED <<nextGfn, pinAll, drain>>

Bind ==
    \E handle \in BOOLEAN, osrelease \in OsRelease :
        /\ ~drain
        /\ ~xci_
        /\ init(handle, osrelease)
        /\ UNCHANGED <<nextGfn, pinAll, credit, drain>>

Destroy ==
    /\ ~drain
    /\ Free
    /\ Destructor
    /\ UNCHANGED <<nextGfn, pinAll, credit, drain>>

\* The caller of a cache that holds more entries than its limit may turn to
\* draining it: from then on it leaves the limit alone, releases every
\* mapping it holds, lowest frame first, and then requests one new frame
\* after the other, releasing each before it requests the next.  It turns to
\* draining right after the call that left the cache over its limit; the turn is
\* no call of the cache; lastOp records it as "drain".
HeldFrames == {g \in DOMAIN cache_ : cache_[g].in_use >= 1}

StartDrain ==
    /\ ~drain /\ alive /\ xci_
    /\ Size(cache_) > cacheLimit_
    /\ lastOp.op = "setLimit" \/ lastOp.mapCalled
    /\ nextGfn <= MaxGfn
    /\ drain' = TRUE
    /\ lastOp' = Plain("drain", 0, "void", NULL)
    /\ UNCHANGED <<progVars, holders, calls, misused, mapCount, unmapCount,
                   asked, inserted, pinnedMiss, cutBelow, nextGfn, pinAll,
                   credit>>

DrainRelease ==
    /\ drain
    /\ HeldFrames # {}
    /\ \E g \in HeldFrames :
          /\ \A h \in HeldFrames : g <= h
          /\ release(cache_[g].pointer)
    /\ UNCHANGED <<nextGfn, pinAll, credit, drain>>

DrainRequest ==
    /\ drain
    /\ HeldFrames = {}
    /\ nextGfn <= MaxGfn
    /\ \E mapOK \in BOOLEAN, probeOK \in BOOLEAN :
          /\ mapOK \/ probeOK
          /\ RequestCost(nextGfn, mapOK, probeOK) <= credit
          /\ update(nextGfn, mapOK, probeOK)
          /\ nextGfn' = IF nextGfn \in DOMAIN cache_'
                        THEN nextGfn + 1 ELSE nextGfn
          /\ credit' = credit - RequestCost(nextGfn, mapOK, probeOK)
    /\ UNCHANGED <<pinAll, drain>>

Drain == DrainRelease \/ DrainRequest

Next ==
    \/ Request \/ Release \/ SetLimit \/ Bind \/ Destroy
    \/ StartDrain \/ DrainRelease \/ DrainRequest

Spec == Init /\ [][Next]_vars

\* update() and release() return, and the draining caller goes on calling:
\* it does not stop while it has a mapping to release or a frame to request
DrainSpec == Spec /\ WF_vars(Drain)


(***************************************************************************)
(* Properties.                                                             *)
(***************************************************************************)
Success == "MAP_SUCCESS"
NotPresent == "MAP_PAGE_NOT_PRESENT"

\* the step taken is update( g, .. ) / one that failed after asking the provider
IsUpdate(g) == lastOp'.op = "update" /\ lastOp'.arg = g
FailedInsert == lastOp'.op = "update" /\ lastOp'.mapCalled
                   /\ lastOp'.ret # Success

\* C1: while every release matches an earlier successful acquire of the same
\* pointer, each entry's in_use is the number of outstanding holders of its
\* pointer, and a pointer with an outstanding holder is mapped and indexed
\* (until the cache is destroyed).
C1_RefCountIsHolders ==
    (alive /\ ~misused) =>
        /\ \A g \in DOMAIN cache_ :
              cache_[g].in_use = holders[cache_[g].pointer]
        /\ \A p \in Pointers : holders[p] > 0 =>
              /\ p \in DOMAIN live
              /\ p \in DOMAIN reverseCache_
              /\ reverseCache_[p] \in DOMAIN cache_
              /\ cache_[reverseCache_[p]].pointer = p

\* a frame held twice and one held once are in the cache after a cleanup that
\* evicted other frames, with no misuse so far
C1_Witness ==
    /\ alive /\ ~misused
    /\ lastOp.cleaned /\ lastOp.evicted # {}
    /\ \E g, h \in DOMAIN cache_ \ {lastOp.arg} :
          cache_[g].in_use = 2 /\ cache_[h].in_use = 1

\* C2: a step in which cleanup runs leaves every entry with in_use > 0 in both
\* indices with the same pointer, accessed and in_use, and its pointer mapped.
C2_CleanupSparesPinned ==
    [][lastOp'.cleaned =>
          \A g \in DOMAIN cache_ : cache_[g].in_use > 0 =>
              /\ g \in DOMAIN cache_'
              /\ cache_'[g] = cache_[g]
              /\ cache_[g].pointer \in DOMAIN reverseCache_'
              /\ reverseCache_'[cache_[g].pointer] = g
              /\ cache_[g].pointer \in DOMAIN live']_vars

\* a cleanup evicted frames younger than a pinned frame that is still there
C2_Witness ==
    /\ lastOp.cleaned /\ lastOp.evicted # {}
    /\ \E g \in DOMAIN cache_ \ {lastOp.arg} :
          /\ cache_[g].in_use > 0
          /\ \E e \in lastOp.evicted : g < e

\* C3: update( g ) of a frame that is in the cache and pinned returns
\* MAP_SUCCESS with the entry's pointer, adds one to in_use, does not call the
\* provider and adds no mapping; an entry keeps its pointer while it is in
\* the cache, and exactly one live mapping belongs to each cached frame.
C3_HitReusesMapping ==
    /\ [](\A g \in DOMAIN cache_ :
            {p \in DOMAIN live : live[p] = g} = {cache_[g].pointer})
    /\ [][\A g \in DOMAIN cache_ :
            /\ g \in DOMAIN cache_' => cache_'[g].pointer = cache_[g].pointer
            /\ (IsUpdate(g) /\ cache_[g].in_use > 0) =>
                  /\ lastOp'.ret = Success
                  /\ lastOp'.pointer = cache_[g].pointer
                  /\ ~lastOp'.mapCalled
                  /\ cache_'[g].in_use = cache_[g].in_use + 1
                  /\ live' = live
                  /\ DOMAIN cache_' = DOMAIN cache_
                  /\ reverseCache_' = reverseCache_]_vars

\* the last call was a hit on a frame that was already pinned
C3_Witness ==
    /\ lastOp.op = "update" /\ lastOp.ret = Success /\ ~lastOp.mapCalled
    /\ lastOp.arg \in DOMAIN cache_
    /\ cache_[lastOp.arg].in_use = 2
    /\ calls[lastOp.arg].rel = 0

\* C4: the forward and the reverse index are duals: the pointer of every
\* entry g maps back to g, every reverse entry p -> g has an entry g with
\* pointer p, and both have the same number of entries.
C4_IndexDuality ==
    /\ \A g \in DOMAIN cache_ :
          /\ cache_[g].pointer \in DOMAIN reverseCache_
          /\ reverseCache_[cache_[g].pointer] = g
    /\ \A p \in DOMAIN reverseCache_ :
          /\ reverseCache_[p] \in DOMAIN cache_
          /\ cache_[reverseCache_[p]].pointer = p
    /\ Size(cache_) = Size(reverseCache_)

\* an insertion followed a cleanup that evicted frames, and took over the
\* address of one of them
C4_Witness ==
    /\ lastOp.cleaned /\ lastOp.evicted # {}
    /\ lastOp.ret = Success
    /\ Size(cache_) > 1
    /\ lastOp.pointer < Size(cache_)

\* C5: in_use of every entry is >= 0 (a release of an entry whose count is 0
\* would leave it at 0).
C5_RefCountNeverNegative ==
    \A g \in DOMAIN cache_ : cache_[g].in_use >= 0

\* C6 as stated: an entry is a candidate of cleanup iff it was released exactly
\* as often as it was acquired since it was created.
C6_EligibleIffBalanced ==
    \A g \in DOMAIN cache_ :
        unused(cache_[g]) <=> calls[g].rel = calls[g].acq

\* C6: an entry is a candidate of cleanup iff it was released at least as often
\* as it was acquired since it was created.
C6_EligibleIffReleased ==
    \A g \in DOMAIN cache_ :
        unused(cache_[g]) <=> calls[g].rel >= calls[g].acq

\* one entry was released more often than acquired, another is balanced
C6_Witness ==
    \E g, h \in DOMAIN cache_ :
        /\ calls[g].rel > calls[g].acq /\ unused(cache_[g])
        /\ calls[h].rel = calls[h].acq /\ unused(cache_[h])

\* C7 as stated: an update of an absent frame that fails leaves both indices
\* as they were.
C7_FailureKeepsStore ==
    [][FailedInsert =>
          cache_' = cache_ /\ reverseCache_' = reverseCache_]_vars

\* C7: an update of an absent frame that fails adds and alters no entry: the
\* frame stays absent and what is left of either index is as before; below
\* the limit both indices are exactly as before, at or over the limit the
\* entries that are gone were unpinned.
C7_FailureAddsNothing ==
    [][FailedInsert =>
          /\ lastOp'.arg \notin DOMAIN cache_'
          /\ \A g \in DOMAIN cache_' :
                g \in DOMAIN cache_ /\ cache_'[g] = cache_[g]
          /\ \A p \in DOMAIN reverseCache_' :
                p \in DOMAIN reverseCache_
                   /\ reverseCache_'[p] = reverseCache_[p]
          /\ \A g \in DOMAIN cache_ \ DOMAIN cache_' : cache_[g].in_use < 1
          /\ Size(cache_) < cacheLimit_ =>
                cache_' = cache_ /\ reverseCache_' = reverseCache_]_vars

\* a failed update below the limit, with a released frame in the cache
C7_Witness ==
    /\ lastOp.op = "update" /\ lastOp.mapCalled /\ lastOp.ret # Success
    /\ ~lastOp.cleaned
    /\ \E g \in DOMAIN cache_ : cache_[g].in_use < 1

\* C8: an update whose fresh mapping fails checkPages returns
\* MAP_PAGE_NOT_PRESENT and nullptr, unmaps that mapping once (one munmap
\* besides those of cleanup, none of an unmapped address), and leaves neither
\* the frame nor the pointer in either index.
C8_RejectedMappingDropped ==
    [][lastOp'.ret = NotPresent =>
          /\ lastOp'.pointer = NULL
          /\ lastOp'.rejected # NULL
          /\ lastOp'.arg \notin DOMAIN cache_'
          /\ lastOp'.rejected \notin DOMAIN reverseCache_'
          /\ \A g \in DOMAIN cache_' : cache_'[g].pointer # lastOp'.rejected
          /\ lastOp'.rejected \notin DOMAIN live'
          /\ lastOp'.nUnmap = Cardinality(lastOp'.evicted) + 1
          /\ strayUnmap' = strayUnmap
          /\ Size(live') = Size(cache_')]_vars

\* a mapping was rejected while other frames are cached
C8_Witness ==
    /\ lastOp.ret = NotPresent
    /\ lastOp.rejected # NULL
    /\ Size(cache_) > 0

\* C9: setLimit( x ) with x < 50 returns false and changes nothing; with
\* x >= 50 it returns true, sets the limit to x and changes nothing else.
C9_LimitFloor ==
    [][lastOp'.op = "setLimit" =>
          /\ lastOp'.arg < 50 =>
                lastOp'.ret = "false" /\ cacheLimit_' = cacheLimit_
          /\ lastOp'.arg >= 50 =>
                lastOp'.ret = "true" /\ cacheLimit_' = lastOp'.arg
          /\ UNCHANGED <<cache_, reverseCache_, live, index, xci_,
                         linuxMajVersion_, alive>>]_vars

\* setLimit( 49 ) was refused on a cache that holds frames and whose limit
\* had been set to 50
C9_Witness ==
    /\ lastOp.op = "setLimit" /\ lastOp.arg = 49 /\ lastOp.ret = "false"
    /\ cacheLimit_ = 50
    /\ Size(cache_) > 0

\* the caller's state of the scenario of C10: limit 50, 50 frames cached, all
\* released, and the step is update of a frame that is absent and maps
C10_Scenario ==
    /\ cacheLimit_ = 50 /\ Size(cache_) = 50
    /\ \A g \in DOMAIN cache_ : cache_[g].in_use < 1
    /\ lastOp'.op = "update" /\ lastOp'.arg \notin DOMAIN cache_
    /\ lastOp'.ret = Success

\* the cleanup of this step evicted the n oldest frames
EvictedOldest(n) ==
    /\ lastOp'.cleaned
    /\ Cardinality(lastOp'.evicted) = n
    /\ lastOp'.evicted = DOMAIN cache_ \ DOMAIN cache_'
    /\ \A e \in lastOp'.evicted : \A g \in DOMAIN cache_ \ lastOp'.evicted :
          cache_[e].accessed < cache_[g].accessed

\* C10 as stated: in the scenario cleanup evicts the 25 oldest frames and the
\* cache holds 26 entries before the insertion and 27 after it.
C10_SizeAfterScenario27 ==
    [][C10_Scenario =>
          /\ EvictedOldest(25)
          /\ Size(cache_') - 1 = 26
          /\ Size(cache_') = 27]_vars

\* C10: in the scenario cleanup evicts the 25 oldest frames and the cache
\* holds 25 entries before the insertion and 26 after it.
C10_SizeAfterScenario26 ==
    [][C10_Scenario =>
          /\ EvictedOldest(25)
          /\ Size(cache_) - Cardinality(lastOp'.evicted) = 25
          /\ Size(cache_') = 26]_vars

\* the 51st request of a caller that requested 50 frames and released each
\* at once has been served
C10_Witness ==
    /\ index = 51 /\ xcMapPage = 51 /\ cacheLimit_ = 50
    /\ ~misused /\ credit = MaxCredit
    /\ lastOp.cleaned /\ Cardinality(lastOp.evicted) = 25
    /\ Size(cache_) = 26
    /\ \A g \in DOMAIN cache_ \ {lastOp.arg} : cache_[g].in_use = 0

GenericFail == "MAP_FAILED_GENERIC"

C12_UnmappedOnce ==
    /\ ~strayUnmap
    /\ mapCount = unmapCount + Size(live)
    /\ alive => DOMAIN live = {cache_[g].pointer : g \in DOMAIN cache_}
    /\ ~alive => live = Empty /\ mapCount = unmapCount

\* the destructor unmapped a mapping that was still held, after cleanup or a
\* rejected mapping had unmapped others
C12_Witness ==
    /\ ~alive
    /\ lastOp.op = "destroy" /\ lastOp.nUnmap > 0
    /\ unmapCount > lastOp.nUnmap
    /\ ~misused /\ \E p \in Pointers : holders[p] > 0

Min(a, b) == IF a <= b THEN a ELSE b

Unpinned(c) == {g \in DOMAIN c : c[g].in_use < 1}

\* C13: a run of cleanup() on a cache with U entries of in_use < 1 and limit C
\* removes exactly min( U, C / 2 ) entries from both indices and unmaps them;
\* every removed entry was unpinned and was accessed no later than every
\* unpinned entry that the run leaves.
C13_EvictsOldestHalf ==
    [][lastOp'.cleaned =>
          LET U    == Unpinned(cache_)
              gone == lastOp'.evicted
          IN  /\ Cardinality(gone) = Min(Cardinality(U), cacheLimit_ \div 2)
              /\ gone \subseteq U
              /\ \A e \in gone : \A s \in U \ gone :
                    cache_[e].accessed <= cache_[s].accessed
              /\ \A e \in gone :
                    /\ e \notin DOMAIN cache_' \ {lastOp'.arg}
                    /\ cache_[e].pointer \notin
                          DOMAIN reverseCache_' \ {lastOp'.pointer}
                    /\ cache_[e].pointer \notin
                          DOMAIN live' \ {lastOp'.pointer}
              /\ \A g \in DOMAIN cache_ \ gone :
                    g \in DOMAIN cache_' /\ cache_'[g] = cache_[g]]_vars

\* cleanup() stopped at its quota and left unpinned entries in the cache
C13_Witness ==
    /\ lastOp.cleaned
    /\ Cardinality(lastOp.evicted) = cacheLimit_ \div 2
    /\ \E g \in Unpinned(cache_) :
          /\ g # lastOp.arg
          /\ \A e \in lastOp.evicted : e < g

\* C14: release( pointer ) of a pointer that the reverse index does not hold
\* changes neither index, no in_use and no accessed, not the limit and not
\* the set of live mappings.
C14_UnknownReleaseNoEffect ==
    [][(lastOp'.op = "release" /\ lastOp'.arg \notin DOMAIN reverseCache_) =>
          UNCHANGED <<cache_, reverseCache_, cacheLimit_, live, strayUnmap,
                      index, xci_, alive>>]_vars

\* an address that cleanup had unmapped was released while other frames were
\* in the cache
C14_Witness ==
    /\ lastOp.op = "release"
    /\ lastOp.arg \notin DOMAIN reverseCache_
    /\ lastOp.arg # StrayPtr
    /\ \E p \in DOMAIN reverseCache_ : p < lastOp.arg
    /\ \E p \in DOMAIN reverseCache_ : p > lastOp.arg

\* the step is a hit: update() of a frame the bound cache holds
Hit == lastOp'.op = "update" /\ xci_ /\ lastOp'.arg \in DOMAIN cache_

\* every entry but those of frames in S is left as it was
SameBut(S) ==
    /\ DOMAIN cache_' = DOMAIN cache_
    /\ \A g \in DOMAIN cache_ \ S : cache_'[g] = cache_[g]
    /\ \A g \in DOMAIN cache_ \cap S :
          cache_'[g].pointer = cache_[g].pointer

\* C15: short of the destructor, an entry leaves the cache or a mapping of
\* the cache is unmapped only in an update() of an absent frame that found
\* the cache at or over its limit, and cleanup() runs in no other step;
\* release() alters nothing but in_use of the entry of its pointer, a hit
\* nothing but in_use and accessed of the entry of its frame.
C15_CleanupOnlyOnFullMiss ==
    [][/\ (\/ lastOp'.cleaned
           \/ alive' /\ DOMAIN cache_ \ DOMAIN cache_' # {}
           \/ alive' /\ DOMAIN live \ DOMAIN live' # {})
          => /\ lastOp'.op = "update"
             /\ lastOp'.arg \notin DOMAIN cache_
             /\ Size(cache_) >= cacheLimit_
       /\ lastOp'.op = "release" =>
             /\ UNCHANGED <<reverseCache_, live, index, unmapCount>>
             /\ SameBut({reverseCache_[p] :
                            p \in {lastOp'.arg} \cap DOMAIN reverseCache_})
             /\ \A g \in DOMAIN cache_ :
                   cache_'[g].accessed = cache_[g].accessed
       /\ Hit =>
             /\ UNCHANGED <<reverseCache_, live, unmapCount>>
             /\ SameBut({lastOp'.arg})]_vars

\* a frame was released and requested again while the cache held more
\* entries than its limit, and stayed in the cache
C15_Witness ==
    /\ Size(cache_) > cacheLimit_
    /\ lastOp.op = "update" /\ ~lastOp.mapCalled /\ lastOp.ret = Success
    /\ calls[lastOp.arg].rel > 0
    /\ cache_[lastOp.arg].in_use = 1

\* the step is an update() of an absent frame on a bound cache that is at or
\* over its limit with every entry pinned, and the host maps the frame and
\* finds it resident
PinnedFullMiss ==
    /\ lastOp'.op = "update" /\ xci_
    /\ lastOp'.arg \notin DOMAIN cache_
    /\ Size(cache_) >= cacheLimit_
    /\ \A g \in DOMAIN cache_ : cache_[g].in_use >= 1
    /\ asked'.host /\ asked'.mapOK /\ asked'.probeOK

\* C16: on a cache at or over its limit whose entries are all pinned,
\* update() of an absent frame that the host maps and finds resident returns
\* MAP_SUCCESS: cleanup() runs and removes nothing, the new entry has
\* in_use = 1, and the cache holds one entry more than before, above its limit.
C16_PinnedCacheGrows ==
    [][PinnedFullMiss =>
          /\ lastOp'.ret = Success /\ lastOp'.pointer # NULL
          /\ lastOp'.cleaned /\ lastOp'.evicted = {}
          /\ unmapCount' = unmapCount
          /\ DOMAIN cache_' = DOMAIN cache_ \cup {lastOp'.arg}
          /\ \A g \in DOMAIN cache_ : cache_'[g] = cache_[g]
          /\ cache_'[lastOp'.arg].in_use = 1
          /\ cache_'[lastOp'.arg].pointer = lastOp'.pointer
          /\ Size(cache_') = Size(cache_) + 1
          /\ Size(cache_') > cacheLimit_']_vars

\* a frame was added to a cache that was already over its limit, every entry
\* pinned
C16_Witness ==
    /\ lastOp.op = "update" /\ lastOp.ret = Success
    /\ lastOp.cleaned /\ lastOp.evicted = {}
    /\ asked.mapOK /\ asked.probeOK
    /\ Size(cache_) >= cacheLimit_ + 2
    /\ \A g \in DOMAIN cache_ : cache_[g].in_use >= 1

\* C17: the counter "xcMapPage" of the statistics collector equals the
\* number of entries ever put into the cache: it is incremented by the
\* update() that maps, validates and inserts a frame and by no other call.
C17_CounterCountsInsertions ==
    xcMapPage = inserted

\* C18: index never decreases; every value of accessed in the cache was
\* drawn from index before, so an update() that returns MAP_SUCCESS, whose
\* stamp is at least the index it found, stamps its entry above every stamp
\* given before; that entry then has the largest accessed of the cache, and
\* no two entries have the same accessed.
C18_ClockOrdersStamps ==
    [][/\ index' >= index
       /\ \A g \in DOMAIN cache_' : cache_'[g].accessed < index'
       /\ (lastOp'.op = "update" /\ lastOp'.ret = Success) =>
             /\ index' > index
             /\ cache_'[lastOp'.arg].accessed >= index
             /\ \A g \in DOMAIN cache_' \ {lastOp'.arg} :
                   cache_'[g].accessed < cache_'[lastOp'.arg].accessed
       /\ Cardinality({cache_'[g].accessed : g \in DOMAIN cache_'})
             = Size(cache_')]_vars

\* a hit stamped an entry of a full cache once more
C18_Witness ==
    /\ lastOp.op = "update" /\ lastOp.ret = Success /\ ~lastOp.mapCalled
    /\ Size(cache_) >= MinLimit
    /\ calls[lastOp.arg].acq >= 2
    /\ cache_[lastOp.arg].accessed = index - 1

\* C19: as long as setLimit() has not set the limit below the size of the
\* cache (as it cannot have if the limit is the one of the constructor) and
\* every insertion found every entry with in_use < 1, the cache holds no
\* more entries than its limit.
C19_ReleasedCacheWithinLimit ==
    (~cutBelow /\ ~pinnedMiss) => Size(cache_) <= cacheLimit_

\* an insertion into a cache at its limit, whose entries were all released,
\* evicted entries and left the cache below its limit
C19_Witness ==
    /\ ~cutBelow /\ ~pinnedMiss
    /\ lastOp.op = "update" /\ lastOp.ret = Success
    /\ lastOp.cleaned /\ lastOp.evicted # {}
    /\ Size(cache_) < cacheLimit_

\* C20: once the caller drains a cache that holds more entries than its
\* limit, every update() of an absent frame that finds the cache at or over
\* the limit runs cleanup(), which evicts entries if any is unpinned, and
\* from some state on the cache holds no more entries than its limit, for
\* good.
C20_DrainRestoresLimit ==
    /\ [][(drain /\ lastOp'.op = "update" /\ lastOp'.arg \notin DOMAIN cache_
              /\ Size(cache_) >= cacheLimit_) =>
             /\ lastOp'.cleaned
             /\ Unpinned(cache_) # {} => lastOp'.evicted # {}]_vars
    /\ [](drain => <>[](Size(cache_) <= cacheLimit_))

\* the draining caller has brought a cache below its limit by an update()
\* that evicted entries, and has gone on to add a frame after that
C20_Witness ==
    /\ drain /\ alive
    /\ Size(cache_) <= cacheLimit_
    /\ lastOp.op = "update" /\ lastOp.ret = Success /\ ~lastOp.cleaned
    /\ unmapCount > 0

====
